---- MODULE Spec2Model ----
(***************************************************************************)
(* ThreadSafe::Queue<T> (include/thread_safe/queue.hpp) on top of          *)
(* ThreadSafe::Wait (include/thread_safe/wait.hpp, src/wait.cpp).          *)
(*                                                                         *)
(* Producers call push, consumers call pop, a controller calls             *)
(* openPush/closePush/openPop/closePop/setDiscardedCallback.  Every read   *)
(* or write of an atomic that another thread can observe is a step of its  *)
(* own; a step that only acquires a mutex is merged with the access that   *)
(* follows it, a step that only releases one with the access before it.    *)
(***************************************************************************)
EXTENDS Integers, Sequences, FiniteSets, TLC

\* ---------------------------------------------------------------- bounds
MaxCapacity == 2
MaxCalls == 2
MaxControl == 2
MaxLoops == 2

Producers == {"p1", "p2"}
Consumers == {"c1", "c2"}
Controllers == {"k"}
Threads == Producers \cup Consumers \cup Controllers

\* ------------------------------------------------------ program constants
\* Queue<T>::WAIT_FOREVER, numeric_limits<uint32_t>::max() milliseconds: a
\* finite duration of about 49.7 days (the largest integer of the model checker
\* stands for 2^32-1)
WAIT_FOREVER == 2147483647
\* a finite timeout such as the tests' push(3, 100)
ShortTimeout == 100
\* std::numeric_limits<size_t>::max(), the size() of a deque whose start has
\* passed its finish; the largest integer of the model checker stands for 2^64-1
SIZE_MAX == 2147483647
\* what a read through the dangling reference of popWithLock may yield
Garbage == -1
\* the value of a local that holds nothing
NoElem == 0

Discard == {"DISCARD_OLDEST", "DISCARD_NEWEST", "NO_DISCARD"}
Control == {"PUSH", "POP", "FULL_CONTROL", "NO_CONTROL"}
Status == {"EMPTY", "NORMAL", "FULL"}
WaitStatus == {"SUCCESS", "TIMEOUT", "EXIT"}
Settings == [discard : Discard, control : Control, size : 1..MaxCapacity]

\* the timeout_ms argument of each thread's calls: the default argument for
\* the first producer and consumer, a finite one for the second
timeout_ms(t) == IF t \in {"p1", "c1"} THEN WAIT_FOREVER ELSE ShortTimeout

\* what the last step returned to its caller, when it ended a call
NoEvent == [thread |-> "none", op |-> "none", ret |-> "none", how |-> "none",
            elem |-> NoElem, head |-> NoElem, out |-> NoElem, stayed |-> FALSE,
            notified |-> "no"]

\* the calls each thread may make in a run: two producers against one
\* consumer, or one producer against two consumers
Workloads ==
    { [t \in Threads |->
         IF t \in Controllers THEN MaxControl
         ELSE IF t = "p1" THEN MaxCalls
         ELSE IF t = idle THEN 0
         ELSE MaxCalls - 1] : idle \in {"p2", "c2"} }

VARIABLES
    m_settings, m_queue, m_size, m_status, m_lock,
    m_open_push, m_open_pop, m_discarded_callback,
    w_lock, m_exit, m_internal_pred_flag,
    pc, op, elem, timedout, ref,
    calls, last, pushedOK, poppedLog, dropped, discardLog, ub, stayed, notified,
    predCalled,
    captured, other,
    m_callable, m_loop, m_thread_ptr, worker, workers, runs,
    m_pred, m_start_callback, m_result_callback, m_exit_callback, mode, events,
    v_value, v_lock, v_tmp, v_done

queueVars == <<m_settings, m_queue, m_size, m_status, m_lock,
               m_open_push, m_open_pop, m_discarded_callback>>
waitVars == <<w_lock, m_exit, m_internal_pred_flag>>
localVars == <<pc, op, elem, timedout, ref>>
ghostVars == <<calls, last, pushedOK, poppedLog, dropped, discardLog, ub, stayed,
               notified>>
\* the flag a caller of Wait::wait(pred) reads in its predicate
callerVars == <<predCalled>>
\* the instance each of the two static predicate closures has captured, and
\* the fields they read of a second Queue<T> instance
pairVars == <<captured, other>>
\* class Thread: its callable, loop flag and thread handle, the position of
\* the worker in Thread::loop, the workers that exist and the runs started
callbackVars == <<m_pred, m_start_callback, m_result_callback, m_exit_callback>>
\* the mode of the last run, and what the worker of that run has invoked, in
\* order, with the calls of stop() made while it existed
runVars == <<mode, events>>
threadVars == <<m_callable, m_loop, m_thread_ptr, worker, workers, runs,
                callbackVars, runVars>>
\* class Variable: its value and mutex, the value each thread's callable has
\* read, and the invocations that have completed
variableVars == <<v_value, v_lock, v_tmp, v_done>>
\* what the queue and the Wait never touch
apartVars == <<threadVars, variableVars>>
vars == <<queueVars, waitVars, localVars, ghostVars, callerVars, pairVars,
          apartVars>>

\* ---------------------------------------------------------------- helpers
Range(s) == {s[i] : i \in 1..Len(s)}

Count(s, v) == Cardinality({i \in 1..Len(s) : s[i] = v})

IsPrefix(s, t) == Len(s) <= Len(t) /\ \A i \in 1..Len(s) : s[i] = t[i]

ProducerBase(t) == IF t = "p1" THEN 10 ELSE 20

\* the value of a producer's next push: every push has a value of its own
NextValue(t) == ProducerBase(t) + calls[t]

\* a pushControllable that knows FULL_CONTROL only
pushControllable_fullOnly(s) == s.control = "FULL_CONTROL"

\* a popControllable that holds for every policy
popControllable_always(s) == TRUE

\* Queue<T>::pushControllable
pushControllable(s) == s.control = "FULL_CONTROL" \/ s.control = "PUSH"

\* Queue<T>::popControllable
popControllable(s) == s.control = "FULL_CONTROL" \/ s.control = "POP"

\* the branch of Queue<T>::updateStatus
StatusOf(size, capacity) ==
    IF size <= 0 THEN "EMPTY"
    ELSE IF size >= capacity THEN "FULL"
    ELSE "NORMAL"

\* an isExit that never sees the flag
isExit_never == FALSE

\* Wait::isExit
isExit == m_exit

\* an internalPred that reads the flag without negating it
internalPred_inverted == m_internal_pred_flag

\* Wait::internalPred
internalPred == ~m_internal_pred_flag

\* a result that does not look at the exit flag
WaitResult_noExit(status) == IF ~status THEN "TIMEOUT" ELSE "SUCCESS"

\* the result of Wait::waitFor(timeout, pred) from wait_for's boolean
WaitResult(status) ==
    IF ~status THEN "TIMEOUT"
    ELSE IF isExit THEN "EXIT"
    ELSE "SUCCESS"

\* the gate that waitToPush reads first (queue.hpp:327)
pushGateOpen == m_open_push

\* a pop gate test that reads the push gate, as closed_or_not_empty_pred does
popGateOpen_readsPush == m_open_push

\* the gate that waitToPop reads first (queue.hpp:354)
popGateOpen == m_open_pop

\* the initialisation of the function-local static closure of waitToPush
\* (side "push") or waitToPop (side "pop") by a call on instance q: the
\* first call to reach it binds its [this], later calls leave it alone
Capture(side, q) ==
    [captured EXCEPT ![side] = IF @ = "none" THEN q ELSE @]

\* the fields the static closure of a side reads through its captured this:
\* those of this queue, or those of the other instance of Queue<T>
Captured(side) ==
    IF captured[side] = "other"
    THEN [open_push |-> other.open_push,
          status |-> StatusOf(other.len, m_settings.size)]
    ELSE [open_push |-> m_open_push, status |-> m_status]

\* closed_or_not_full_pred, its first operand (queue.hpp:334)
closed_or_not_full_gate == ~Captured("push").open_push

\* closed_or_not_full_pred, its second operand (queue.hpp:334)
closed_or_not_full_status == Captured("push").status # "FULL"

\* closed_or_not_empty_pred, its first operand (queue.hpp:361)
closed_or_not_empty_gate == ~Captured("pop").open_push

\* closed_or_not_empty_pred, its second operand (queue.hpp:361)
closed_or_not_empty_status == Captured("pop").status # "EMPTY"

\* the buffer holds as many elements as the capacity allows, or more, and the
\* push gate is open
FullOpen ==
    /\ Len(m_queue) >= m_settings.size
    /\ m_open_push

\* the calls that wait inside Queue::push and Queue::pop
QueueOps == {"push", "pop"}
\* Queue::waitPushOpen and Queue::waitPopOpen
GateOps == {"waitPushOpen", "waitPopOpen"}
\* the four waits of class Wait, called on a Wait of their own
WaitOps == {"wait", "wait_pred", "waitFor", "waitFor_pred"}
\* the waits that have no deadline
Untimed == {"wait", "wait_pred"}

\* what is watched during a call of o: for a push that the buffer is full
\* and push-open, for a wait of class Wait that exit() has been called, for
\* waitPushOpen / waitPopOpen that the gate is closed
Watched(o) ==
    IF o = "push" THEN FullOpen
    ELSE IF o \in WaitOps THEN m_exit
    ELSE IF o = "waitPushOpen" THEN ~m_open_push
    ELSE IF o = "waitPopOpen" THEN ~m_open_pop
    ELSE FALSE

\* Watched in the state a step leads to
WatchedNext(o) ==
    IF o = "push" THEN FullOpen'
    ELSE IF o \in WaitOps THEN m_exit'
    ELSE IF o = "waitPushOpen" THEN ~m_open_push'
    ELSE IF o = "waitPopOpen" THEN ~m_open_pop'
    ELSE FALSE

\* history of a wait of class Wait: whether Wait::notify has been called
\* since the wait began, and whether one of these calls found the waiter
\* blocked in the condition variable
Heard(t) ==
    IF op'[t] \notin WaitOps \/ op[t] # op'[t] THEN "no"
    ELSE IF last'.op # "notify" THEN notified[t]
    ELSE IF pc[t] = "blocked" \/ notified[t] = "blocked" THEN "blocked"
    ELSE "running"

\* history: what is watched has held since the call of t began
Track ==
    /\ stayed' = [t \in Threads |->
                    (IF op[t] = op'[t] THEN stayed[t] ELSE TRUE)
                    /\ WatchedNext(op'[t])]
    /\ notified' = [t \in Threads |-> Heard(t)]

\* ------------------------------------------------------- thread-local steps
\* thread t goes on at p within its call
Goto(t, p) ==
    /\ pc' = [pc EXCEPT ![t] = p]
    /\ last' = NoEvent
    /\ UNCHANGED <<op, elem, timedout, ref>>

\* the locals of thread t once its call has returned
Returned(t) ==
    /\ op' = [op EXCEPT ![t] = "none"]
    /\ elem' = [elem EXCEPT ![t] = NoElem]
    /\ timedout' = [timedout EXCEPT ![t] = FALSE]
    /\ ref' = [ref EXCEPT ![t] = NoElem]

\* the call of thread t returns r on path h, out being the popped or
\* discarded element it copied
Event(t, o, r, h, out) ==
    last' = [thread |-> t, op |-> o, ret |-> r, how |-> h, elem |-> elem[t],
             head |-> ref[t], out |-> out,
             stayed |-> stayed[t] /\ Watched(o), notified |-> notified[t]]

\* a call of thread t that returns without waking anybody
Return(t, r, h) ==
    /\ pc' = [pc EXCEPT ![t] = "idle"]
    /\ Returned(t)
    /\ Event(t, op[t], r, h, NoElem)

\* condition_variable::notify_all on the program counters p: every thread
\* blocked in wait_until leaves it and has to take the Wait lock again
notify_all(p) == [t \in Threads |-> IF p[t] = "blocked" THEN "wf_enter" ELSE p[t]]

\* Wait::notify, called by thread t that goes on at next
notify(t, next) ==
    /\ m_internal_pred_flag' = FALSE
    /\ pc' = notify_all([pc EXCEPT ![t] = next])

\* Queue<T>::onDiscarded: the callback, when there is one, is called with v
onDiscarded(v) ==
    /\ dropped' = Append(dropped, v)
    /\ discardLog' = IF m_discarded_callback THEN Append(discardLog, v) ELSE discardLog

\* ------------------------------------------------------------------- Init
\* the queue as its constructor leaves it, for the settings of S and the
\* workloads of W
InitWith(S, W) ==
    /\ m_settings \in S
    /\ m_queue = <<>>
    /\ m_size = 0
    /\ m_status = "EMPTY"
    /\ m_lock = "none"
    /\ m_open_push = ~pushControllable(m_settings)
    /\ m_open_pop = ~popControllable(m_settings)
    /\ m_discarded_callback = FALSE
    /\ w_lock = "none"
    /\ m_exit = FALSE
    /\ m_internal_pred_flag = FALSE
    /\ pc = [t \in Threads |-> "idle"]
    /\ op = [t \in Threads |-> "none"]
    /\ elem = [t \in Threads |-> NoElem]
    /\ timedout = [t \in Threads |-> FALSE]
    /\ ref = [t \in Threads |-> NoElem]
    /\ calls \in W
    /\ last = NoEvent
    /\ pushedOK = <<>>
    /\ poppedLog = <<>>
    /\ dropped = <<>>
    /\ discardLog = <<>>
    /\ ub = FALSE
    /\ stayed = [t \in Threads |-> FALSE]
    /\ notified = [t \in Threads |-> "no"]
    /\ predCalled = FALSE
    /\ captured = [push |-> "none", pop |-> "none"]
    /\ other = [open_push |-> ~pushControllable(m_settings),
                open_pop |-> ~popControllable(m_settings),
                len |-> 0, alive |-> TRUE]
    /\ m_callable = FALSE
    /\ m_loop = TRUE
    /\ m_thread_ptr = "null"
    /\ worker = "none"
    /\ workers = 0
    /\ runs = 0
    /\ m_pred = FALSE
    /\ m_start_callback = FALSE
    /\ m_result_callback = FALSE
    /\ m_exit_callback = FALSE
    /\ mode = "none"
    /\ events = <<>>
    /\ v_value = 0
    /\ v_lock = "none"
    /\ v_tmp = [t \in Threads |-> 0]
    /\ v_done = 0

Init == InitWith(Settings, Workloads)

\* ------------------------------------------------------------ Wait::waitFor
\* how a wait ended, from its Wait::Status
HowOf(result) ==
    IF result = "TIMEOUT" THEN "timeout"
    ELSE IF result = "EXIT" THEN "exit"
    ELSE "success"

\* the first operand of the predicate thread t waits on, after isExit()
pred_first(t) ==
    IF op[t] = "push" THEN closed_or_not_full_gate
    ELSE IF op[t] = "pop" THEN closed_or_not_empty_gate
    ELSE FALSE

\* predicates in which waitPushOpen and waitPopOpen read each other's gate
pred_second_swapped(t) ==
    IF op[t] = "push" THEN closed_or_not_full_status
    ELSE IF op[t] = "pop" THEN closed_or_not_empty_status
    ELSE IF op[t] = "waitPushOpen" THEN m_open_pop
    ELSE IF op[t] = "waitPopOpen" THEN m_open_push
    ELSE IF op[t] \in {"wait", "waitFor"} THEN internalPred
    ELSE predCalled

\* the last operand of the predicate thread t waits on
pred_second(t) ==
    IF op[t] = "push" THEN closed_or_not_full_status
    ELSE IF op[t] = "pop" THEN closed_or_not_empty_status
    ELSE IF op[t] = "waitPushOpen" THEN m_open_push
    ELSE IF op[t] = "waitPopOpen" THEN m_open_pop
    ELSE IF op[t] \in {"wait", "waitFor"} THEN internalPred
    ELSE predCalled

\* the end of a wait of thread t, status being what the condition variable's
\* wait returned: the test of the result in waitToPush / waitToPop, the
\* boolean of waitPushOpen / waitPopOpen, or the Wait::Status itself
FinishWait(t, status) ==
    IF op[t] \in WaitOps
    THEN Return(t, WaitResult(status), HowOf(WaitResult(status)))
    ELSE IF op[t] \in GateOps
    THEN Return(t, IF WaitResult(status) = "SUCCESS" THEN "true" ELSE "false",
                HowOf(WaitResult(status)))
    ELSE IF WaitResult(status) # "SUCCESS"
    THEN Return(t, "false", IF WaitResult(status) = "TIMEOUT" THEN "timeout" ELSE "exit")
    ELSE /\ pc' = [pc EXCEPT ![t] = IF op[t] = "push" THEN "wtp_after" ELSE "wtpop_after"]
         /\ timedout' = [timedout EXCEPT ![t] = FALSE]
         /\ last' = NoEvent
         /\ UNCHANGED <<op, elem, ref>>

\* take the Wait lock and evaluate isExit() || first operand of the predicate
waitFor_enter(t) ==
    /\ pc[t] = "wf_enter"
    /\ w_lock = "none"
    /\ IF isExit \/ pred_first(t)
       THEN FinishWait(t, TRUE) /\ UNCHANGED w_lock
       ELSE Goto(t, "wf_pred") /\ w_lock' = t
    /\ UNCHANGED <<queueVars, m_exit, m_internal_pred_flag>>
    /\ UNCHANGED <<calls, pushedOK, poppedLog, dropped, discardLog, ub>>
    /\ Track
    /\ UNCHANGED <<callerVars, pairVars, apartVars>>

\* evaluate the second operand of the predicate; wait_for returns true when
\* it holds, the predicate's value after a timeout, and blocks otherwise
waitFor_pred(t) ==
    /\ pc[t] = "wf_pred"
    /\ IF pred_second(t)
       THEN FinishWait(t, TRUE) /\ w_lock' = "none"
       ELSE IF timedout[t]
            THEN FinishWait(t, FALSE) /\ w_lock' = "none"
            ELSE Goto(t, "wf_block") /\ UNCHANGED w_lock
    /\ UNCHANGED <<queueVars, m_exit, m_internal_pred_flag>>
    /\ UNCHANGED <<calls, pushedOK, poppedLog, dropped, discardLog, ub>>
    /\ Track
    /\ UNCHANGED <<callerVars, pairVars, apartVars>>

\* condition_variable::wait_until: release the Wait lock and block, atomically
\* a wait that suspends the thread without releasing the Wait lock
waitFor_block_keepsLock(t) ==
    /\ pc[t] = "wf_block"
    /\ w_lock' = w_lock
    /\ Goto(t, "blocked")
    /\ UNCHANGED <<queueVars, m_exit, m_internal_pred_flag>>
    /\ UNCHANGED <<calls, pushedOK, poppedLog, dropped, discardLog, ub>>
    /\ Track
    /\ UNCHANGED <<callerVars, pairVars, apartVars>>

waitFor_block(t) ==
    /\ pc[t] = "wf_block"
    /\ w_lock' = "none"
    /\ Goto(t, "blocked")
    /\ UNCHANGED <<queueVars, m_exit, m_internal_pred_flag>>
    /\ UNCHANGED <<calls, pushedOK, poppedLog, dropped, discardLog, ub>>
    /\ Track
    /\ UNCHANGED <<callerVars, pairVars, apartVars>>

\* the deadline of wait_until passes: every timeout_ms is finite; wait() and
\* wait(pred) have no deadline
waitFor_timeout(t) ==
    /\ pc[t] = "blocked"
    /\ op[t] \notin Untimed
    /\ timeout_ms(t) \in {ShortTimeout, WAIT_FOREVER}
    /\ pc' = [pc EXCEPT ![t] = "wf_enter"]
    /\ timedout' = [timedout EXCEPT ![t] = TRUE]
    /\ last' = NoEvent
    /\ UNCHANGED <<op, elem, ref>>
    /\ UNCHANGED <<queueVars, waitVars>>
    /\ UNCHANGED <<calls, pushedOK, poppedLog, dropped, discardLog, ub>>
    /\ Track
    /\ UNCHANGED <<callerVars, pairVars, apartVars>>

\* a spurious wake-up of wait_until
waitFor_spurious(t) ==
    /\ pc[t] = "blocked"
    /\ Goto(t, "wf_enter")
    /\ UNCHANGED <<queueVars, waitVars>>
    /\ UNCHANGED <<calls, pushedOK, poppedLog, dropped, discardLog, ub>>
    /\ Track
    /\ UNCHANGED <<callerVars, pairVars, apartVars>>

\* ------------------------------------------------------------- Queue::push
\* push is called: waitToPush reads the push gate
push(t) ==
    /\ t \in Producers
    /\ pc[t] = "idle"
    /\ calls[t] > 0
    /\ calls' = [calls EXCEPT ![t] = @ - 1]
    /\ IF ~pushGateOpen
       THEN /\ pc' = [pc EXCEPT ![t] = "idle"]
            /\ last' = [NoEvent EXCEPT !.thread = t, !.op = "push", !.ret = "false",
                                       !.how = "closed", !.elem = NextValue(t)]
            /\ UNCHANGED <<op, elem, timedout, ref>>
       ELSE /\ pc' = [pc EXCEPT ![t] = "wtp_status"]
            /\ op' = [op EXCEPT ![t] = "push"]
            /\ elem' = [elem EXCEPT ![t] = NextValue(t)]
            /\ last' = NoEvent
            /\ UNCHANGED <<timedout, ref>>
    /\ captured' = IF pushGateOpen THEN Capture("push", "this") ELSE captured
    /\ UNCHANGED <<queueVars, waitVars>>
    /\ UNCHANGED <<pushedOK, poppedLog, dropped, discardLog, ub>>
    /\ Track
    /\ UNCHANGED <<callerVars, other, apartVars>>

\* the test of waitToPush that sends a push into Wait::waitFor (queue.hpp:341)
mustWaitToPush == m_status = "FULL" /\ m_settings.discard = "NO_DISCARD"

\* waitToPush reads the status: a full NO_DISCARD queue makes it wait
waitToPush_status(t) ==
    /\ pc[t] = "wtp_status"
    /\ IF mustWaitToPush
       THEN Goto(t, "wf_enter")
       ELSE Goto(t, "push_status")
    /\ UNCHANGED <<queueVars, waitVars>>
    /\ UNCHANGED <<calls, pushedOK, poppedLog, dropped, discardLog, ub>>
    /\ Track
    /\ UNCHANGED <<callerVars, pairVars, apartVars>>

\* waitToPush after a successful wait: the push gate is read again
waitToPush_after(t) ==
    /\ pc[t] = "wtp_after"
    /\ IF ~m_open_push
       THEN Return(t, "false", "closed_after_wait")
       ELSE Goto(t, "push_status")
    /\ UNCHANGED <<queueVars, waitVars>>
    /\ UNCHANGED <<calls, pushedOK, poppedLog, dropped, discardLog, ub>>
    /\ Track
    /\ UNCHANGED <<callerVars, pairVars, apartVars>>

\* the DISCARD_NEWEST branch of push: the incoming element goes to
\* onDiscarded and push returns false
discardNewest(t) ==
    /\ onDiscarded(elem[t])
    /\ pc' = [pc EXCEPT ![t] = "idle"]
    /\ Returned(t)
    /\ Event(t, "push", "false", "discard_newest", elem[t])

\* push reads the status again and chooses its branch
push_status(t) ==
    /\ pc[t] = "push_status"
    /\ IF m_status # "FULL"
       THEN Goto(t, "pwl_lock") /\ UNCHANGED <<dropped, discardLog>>
       ELSE IF m_settings.discard = "DISCARD_NEWEST"
            THEN discardNewest(t)
            ELSE IF m_settings.discard = "DISCARD_OLDEST"
                 THEN Goto(t, "popwl_lock") /\ UNCHANGED <<dropped, discardLog>>
                 ELSE Return(t, "false", "full") /\ UNCHANGED <<dropped, discardLog>>
    /\ UNCHANGED <<queueVars, waitVars>>
    /\ UNCHANGED <<calls, pushedOK, poppedLog, ub>>
    /\ Track
    /\ UNCHANGED <<callerVars, pairVars, apartVars>>

\* pushWithLock: take the buffer lock and append
pushWithLock(t) ==
    /\ pc[t] = "pwl_lock"
    /\ m_lock = "none"
    /\ m_lock' = t
    /\ m_queue' = Append(m_queue, elem[t])
    /\ Goto(t, "pwl_update")
    /\ UNCHANGED <<m_settings, m_size, m_status, m_open_push, m_open_pop,
                   m_discarded_callback, waitVars>>
    /\ UNCHANGED <<calls, pushedOK, poppedLog, dropped, discardLog, ub>>
    /\ Track
    /\ UNCHANGED <<callerVars, pairVars, apartVars>>

\* popWithLock: take the buffer lock, bind a reference to the head and remove
\* it; front() and pop_front() on an empty deque are undefined
popWithLock(t) ==
    /\ pc[t] = "popwl_lock"
    /\ m_lock = "none"
    /\ m_lock' = t
    /\ IF m_queue # <<>>
       THEN /\ ref' = [ref EXCEPT ![t] = Head(m_queue)]
            /\ m_queue' = Tail(m_queue)
            /\ pc' = [pc EXCEPT ![t] = "popwl_update"]
            /\ UNCHANGED ub
       ELSE /\ ref' = [ref EXCEPT ![t] = Garbage]
            /\ m_queue' = m_queue
            /\ pc' = [pc EXCEPT ![t] = "popwl_update_ub"]
            /\ ub' = TRUE
    /\ last' = NoEvent
    /\ UNCHANGED <<op, elem, timedout>>
    /\ UNCHANGED <<m_settings, m_size, m_status, m_open_push, m_open_pop,
                   m_discarded_callback, waitVars>>
    /\ UNCHANGED <<calls, pushedOK, poppedLog, dropped, discardLog>>
    /\ Track
    /\ UNCHANGED <<callerVars, pairVars, apartVars>>

\* updateStatus under the buffer lock (size, status, Wait::notify), the
\* release of the lock, and what the caller does with the result
\*  - pushWithLock: push returns true;
\*  - popWithLock in pop: the element is copied through the returned
\*    reference, which dangles, into the out-parameter; pop returns true;
\*  - popWithLock in push (DISCARD_OLDEST): the element is copied the same
\*    way and handed to onDiscarded; push returns true.
updateStatus(t) ==
    /\ pc[t] \in {"pwl_update", "popwl_update", "popwl_update_ub"}
    /\ \E sz \in (IF pc[t] = "popwl_update_ub" THEN {0, SIZE_MAX} ELSE {Len(m_queue)}) :
         /\ m_size' = sz
         /\ m_status' = StatusOf(sz, m_settings.size)
    /\ notify(t, "idle")
    /\ m_lock' = "none"
    /\ Returned(t)
    /\ IF pc[t] = "pwl_update"
       THEN /\ pushedOK' = Append(pushedOK, elem[t])
            /\ Event(t, "push", "true", "pushed", NoElem)
            /\ UNCHANGED <<poppedLog, dropped, discardLog>>
       ELSE \E v \in {ref[t], Garbage} :
              IF op[t] = "pop"
              THEN /\ poppedLog' = Append(poppedLog, v)
                   /\ Event(t, "pop", "true", "popped", v)
                   /\ UNCHANGED <<pushedOK, dropped, discardLog>>
              ELSE /\ onDiscarded(v)
                   /\ pushedOK' = Append(pushedOK, elem[t])
                   /\ Event(t, "push", "true", "discard_oldest", v)
                   /\ UNCHANGED poppedLog
    /\ UNCHANGED <<m_settings, m_queue, m_open_push, m_open_pop,
                   m_discarded_callback, w_lock, m_exit>>
    /\ UNCHANGED <<calls, ub>>
    /\ Track
    /\ UNCHANGED <<callerVars, pairVars, apartVars>>

\* -------------------------------------------------------------- Queue::pop
\* pop is called: waitToPop reads the pop gate
pop(t) ==
    /\ t \in Consumers
    /\ pc[t] = "idle"
    /\ calls[t] > 0
    /\ calls' = [calls EXCEPT ![t] = @ - 1]
    /\ IF ~popGateOpen
       THEN /\ pc' = [pc EXCEPT ![t] = "idle"]
            /\ last' = [NoEvent EXCEPT !.thread = t, !.op = "pop", !.ret = "false",
                                       !.how = "closed"]
            /\ UNCHANGED op
       ELSE /\ pc' = [pc EXCEPT ![t] = "wtpop_status"]
            /\ op' = [op EXCEPT ![t] = "pop"]
            /\ last' = NoEvent
    /\ captured' = IF popGateOpen THEN Capture("pop", "this") ELSE captured
    /\ UNCHANGED <<elem, timedout, ref>>
    /\ UNCHANGED <<queueVars, waitVars>>
    /\ UNCHANGED <<pushedOK, poppedLog, dropped, discardLog, ub>>
    /\ Track
    /\ UNCHANGED <<callerVars, other, apartVars>>

\* waitToPop reads the status: an empty queue makes it wait
waitToPop_status(t) ==
    /\ pc[t] = "wtpop_status"
    /\ IF m_status = "EMPTY"
       THEN Goto(t, "wf_enter")
       ELSE Goto(t, "popwl_lock")
    /\ UNCHANGED <<queueVars, waitVars>>
    /\ UNCHANGED <<calls, pushedOK, poppedLog, dropped, discardLog, ub>>
    /\ Track
    /\ UNCHANGED <<callerVars, pairVars, apartVars>>

\* waitToPop after a successful wait: the pop gate is read again
waitToPop_after(t) ==
    /\ pc[t] = "wtpop_after"
    /\ IF ~m_open_pop
       THEN Return(t, "false", "closed_after_wait")
       ELSE Goto(t, "popwl_lock")
    /\ UNCHANGED <<queueVars, waitVars>>
    /\ UNCHANGED <<calls, pushedOK, poppedLog, dropped, discardLog, ub>>
    /\ Track
    /\ UNCHANGED <<callerVars, pairVars, apartVars>>

\* ------------------------------------------------------------ the gates
\* a gate call of the controller: a no-op on a side that is not controllable,
\* otherwise the store and Wait::notify
SetGate(t, controllable, push_value, pop_value) ==
    /\ calls' = [calls EXCEPT ![t] = @ - 1]
    /\ IF ~controllable
       THEN UNCHANGED <<m_open_push, m_open_pop, m_internal_pred_flag, pc>>
       ELSE /\ m_open_push' = push_value
            /\ m_open_pop' = pop_value
            /\ notify(t, "idle")
    /\ UNCHANGED <<op, elem, timedout, ref>>
    /\ UNCHANGED <<m_settings, m_queue, m_size, m_status, m_lock,
                   m_discarded_callback, w_lock, m_exit>>
    /\ UNCHANGED <<pushedOK, poppedLog, dropped, discardLog, ub>>
    /\ Track
    /\ UNCHANGED <<callerVars, pairVars, apartVars>>

\* the controller is between two calls and has calls left
CanCall(t) == t \in Controllers /\ pc[t] = "idle" /\ calls[t] > 0

\* the call o of thread t, which returns nothing, has just returned
Called(t, o) == last' = [NoEvent EXCEPT !.thread = t, !.op = o]

\* an openPush that opens the pop gate as well
openPush_both(t) ==
    /\ CanCall(t)
    /\ Called(t, "openPush")
    /\ SetGate(t, pushControllable(m_settings), TRUE, TRUE)

openPush(t) ==
    /\ CanCall(t)
    /\ Called(t, "openPush")
    /\ SetGate(t, pushControllable(m_settings), TRUE, m_open_pop)

closePush(t) ==
    /\ CanCall(t)
    /\ Called(t, "closePush")
    /\ SetGate(t, pushControllable(m_settings), FALSE, m_open_pop)

openPop(t) ==
    /\ CanCall(t)
    /\ Called(t, "openPop")
    /\ SetGate(t, popControllable(m_settings), m_open_push, TRUE)

closePop(t) ==
    /\ CanCall(t)
    /\ Called(t, "closePop")
    /\ SetGate(t, popControllable(m_settings), m_open_push, FALSE)

\* Queue<T>::setDiscardedCallback: the controller installs a callable
setDiscardedCallback(t) ==
    /\ t \in Controllers
    /\ pc[t] = "idle"
    /\ ~m_discarded_callback
    /\ m_discarded_callback' = TRUE
    /\ last' = NoEvent
    /\ UNCHANGED <<m_settings, m_queue, m_size, m_status, m_lock,
                   m_open_push, m_open_pop, waitVars, localVars>>
    /\ UNCHANGED <<calls, pushedOK, poppedLog, dropped, discardLog, ub>>
    /\ Track
    /\ UNCHANGED <<callerVars, pairVars, apartVars>>

\* ------------------------------------------- waitPushOpen and waitPopOpen
\* thread t calls o, one of waitPushOpen and waitPopOpen: Wait::waitFor with
\* the gate as its predicate
StartGateWait(t, o) ==
    /\ pc[t] = "idle"
    /\ calls[t] > 0
    /\ calls' = [calls EXCEPT ![t] = @ - 1]
    /\ pc' = [pc EXCEPT ![t] = "wf_enter"]
    /\ op' = [op EXCEPT ![t] = o]
    /\ last' = NoEvent
    /\ UNCHANGED <<elem, timedout, ref>>
    /\ UNCHANGED <<queueVars, waitVars>>
    /\ UNCHANGED <<pushedOK, poppedLog, dropped, discardLog, ub>>
    /\ Track
    /\ UNCHANGED <<callerVars, pairVars, apartVars>>

\* Queue<T>::waitPushOpen, called by a producer
waitPushOpen(t) ==
    /\ t \in Producers
    /\ StartGateWait(t, "waitPushOpen")

\* Queue<T>::waitPopOpen, called by a consumer
waitPopOpen(t) ==
    /\ t \in Consumers
    /\ StartGateWait(t, "waitPopOpen")

\* ------------------------------------------------------------- class Wait
\* the threads that wait on a Wait of their own, and the thread that calls
\* notify() and exit() and sets the flag the predicates read
Waiters == Producers \cup Consumers

\* an exit() that flips the flag
exit_value_flipped == ~m_exit

\* what Wait::exit stores in m_exit (wait.cpp:45)
exit_value == TRUE

\* the waiter is between two calls and has calls left
CanWait(t) == t \in Waiters /\ pc[t] = "idle" /\ calls[t] > 0

\* a wait o of class Wait is called by thread t; wait() and waitFor(d) begin
\* with enableInternalPred, then every variant takes the lock
StartWait(t, o) ==
    /\ calls' = [calls EXCEPT ![t] = @ - 1]
    /\ pc' = [pc EXCEPT ![t] = "wf_enter"]
    /\ op' = [op EXCEPT ![t] = o]
    /\ m_internal_pred_flag' = (m_internal_pred_flag \/ o \in {"wait", "waitFor"})
    /\ last' = NoEvent
    /\ UNCHANGED <<elem, timedout, ref>>
    /\ UNCHANGED <<queueVars, w_lock, m_exit>>
    /\ UNCHANGED <<pushedOK, poppedLog, dropped, discardLog, ub>>
    /\ Track
    /\ UNCHANGED <<callerVars, pairVars, apartVars>>

\* Wait::wait()
Wait_wait(t) ==
    /\ CanWait(t)
    /\ StartWait(t, "wait")

\* Wait::wait(pred)
Wait_wait_pred(t) ==
    /\ CanWait(t)
    /\ StartWait(t, "wait_pred")

\* Wait::waitFor(timeout)
Wait_waitFor(t) ==
    /\ CanWait(t)
    /\ StartWait(t, "waitFor")

\* Wait::waitFor(timeout, pred)
Wait_waitFor_pred(t) ==
    /\ CanWait(t)
    /\ StartWait(t, "waitFor_pred")

\* Wait::notify
Wait_notify(t) ==
    /\ CanCall(t)
    /\ calls' = [calls EXCEPT ![t] = @ - 1]
    /\ notify(t, "idle")
    /\ Called(t, "notify")
    /\ UNCHANGED <<op, elem, timedout, ref>>
    /\ UNCHANGED <<queueVars, w_lock, m_exit>>
    /\ UNCHANGED <<pushedOK, poppedLog, dropped, discardLog, ub>>
    /\ Track
    /\ UNCHANGED <<callerVars, pairVars, apartVars>>

\* Wait::exit: the store and notify_all, neither under the Wait lock
Wait_exit(t) ==
    /\ CanCall(t)
    /\ calls' = [calls EXCEPT ![t] = @ - 1]
    /\ m_exit' = exit_value
    /\ pc' = notify_all(pc)
    /\ last' = [NoEvent EXCEPT !.thread = t, !.op = "exit",
                               !.how = IF m_exit THEN "again" ELSE "first"]
    /\ UNCHANGED <<op, elem, timedout, ref>>
    /\ UNCHANGED <<queueVars, w_lock, m_internal_pred_flag>>
    /\ UNCHANGED <<pushedOK, poppedLog, dropped, discardLog, ub>>
    /\ Track
    /\ UNCHANGED <<callerVars, pairVars, apartVars>>

\* the caller's thread stores b in the flag its predicates read
setPredCalled(t) ==
    /\ CanCall(t)
    /\ calls' = [calls EXCEPT ![t] = @ - 1]
    /\ \E b \in BOOLEAN : predCalled' = b
    /\ Called(t, "predCalled")
    /\ UNCHANGED <<queueVars, waitVars, localVars>>
    /\ UNCHANGED <<pushedOK, poppedLog, dropped, discardLog, ub>>
    /\ Track
    /\ UNCHANGED <<pairVars, apartVars>>

\* ------------------------------------- a second instance of Queue<T>
\* the second instance is built with the same Settings; its user is the
\* controller, whose calls on it never have to wait and are taken whole

\* a step of the controller on the second instance that leaves it as `o`
\* and the static closures as `c`
OtherStep(t, name, o, c) ==
    /\ CanCall(t)
    /\ calls' = [calls EXCEPT ![t] = @ - 1]
    /\ other' = o
    /\ captured' = c
    /\ Called(t, name)
    /\ UNCHANGED <<queueVars, waitVars, localVars>>
    /\ UNCHANGED <<pushedOK, poppedLog, dropped, discardLog, ub>>
    /\ Track
    /\ UNCHANGED <<callerVars, apartVars>>

\* push on the second instance while it is push-open and not full:
\* waitToPush initialises the static closure, pushWithLock appends
other_push(t) ==
    /\ other.alive /\ other.open_push
    /\ other.len < m_settings.size
    /\ OtherStep(t, "other_push", [other EXCEPT !.len = @ + 1],
                 Capture("push", "other"))

\* pop on the second instance while it is pop-open and not empty:
\* waitToPop initialises the static closure, popWithLock removes the head
other_pop(t) ==
    /\ other.alive /\ other.open_pop
    /\ other.len > 0
    /\ OtherStep(t, "other_pop", [other EXCEPT !.len = @ - 1],
                 Capture("pop", "other"))

\* openPush / closePush on the second instance
other_setPush(t) ==
    /\ other.alive
    /\ pushControllable(m_settings)
    /\ OtherStep(t, "other_setPush", [other EXCEPT !.open_push = ~@], captured)

\* the second instance is destroyed: the closures keep their pointer, and
\* what they read through it afterwards is whatever the freed memory holds
other_destroy(t) ==
    /\ other.alive
    /\ \E g \in BOOLEAN, n \in 0..m_settings.size :
         OtherStep(t, "other_destroy",
                   [open_push |-> g, open_pop |-> other.open_pop,
                    len |-> n, alive |-> FALSE], captured)

\* ------------------------------------------------------------ class Thread
\* the Thread object is used by one owner, the controller; its worker is a
\* thread of its own, at `worker` in Thread::loop
RunMode == {"ONCE", "LOOP"}

\* the process has not been brought down by the worker
Alive == worker # "crashed"

\* a test of the handle that takes a finished worker for no worker
hasWorker_running == m_thread_ptr # "null" /\ worker # "finished"

\* m_thread_ptr != nullptr (thread.hpp:103, 170)
hasWorker == m_thread_ptr # "null"

\* a join that returns while the worker is still in loop()
workerLeft_any == worker # "none"

\* std::thread::join returns once the worker has left Thread::loop
workerLeft == worker = "finished"

\* what the calls on a Thread leave alone
ThreadFrame ==
    /\ UNCHANGED <<queueVars, waitVars, op, elem, timedout, ref>>
    /\ UNCHANGED <<pushedOK, poppedLog, dropped, discardLog, stayed, notified>>
    /\ UNCHANGED <<callerVars, pairVars, variableVars>>

\* an entry of events: what was invoked, and the result of the callable or
\* of the predicate that goes with it
Entry(e, v) == [ev |-> e, val |-> v]

\* the invocations of the callable in the last run
Invoked == Cardinality({i \in DOMAIN events : events[i].ev = "call"})

\* a test of the loop flag that never sees it cleared
loopFlag_stuck == TRUE

\* m_loop.load(std::memory_order_acquire) (thread.hpp:286)
loopFlag == m_loop

\* the call o of the owner has returned r on path h
Answered(t, o, r, h) ==
    last' = [NoEvent EXCEPT !.thread = t, !.op = o, !.ret = r, !.how = h]

\* Thread::invoke: refused while a worker object exists, else the callable
\* is stored
Thread_invoke(t) ==
    /\ CanCall(t) /\ Alive
    /\ calls' = [calls EXCEPT ![t] = @ - 1]
    /\ IF hasWorker
       THEN Answered(t, "invoke", "false", "exists") /\ UNCHANGED m_callable
       ELSE Answered(t, "invoke", "true", "stored") /\ m_callable' = TRUE
    /\ UNCHANGED <<pc, ub, m_loop, m_thread_ptr, worker, workers, runs>>
    /\ UNCHANGED <<callbackVars, runVars>>
    /\ ThreadFrame

\* the setters of the predicate and of the three callbacks, called by the
\* owner while no worker object exists
SetCallback(t) ==
    /\ t \in Controllers /\ pc[t] = "idle" /\ Alive
    /\ ~hasWorker
    /\ last' = NoEvent
    /\ UNCHANGED <<pc, calls, ub, m_callable, m_loop, m_thread_ptr, worker, workers,
                   runs, runVars>>
    /\ ThreadFrame

\* Thread::setPredicate
Thread_setPredicate(t) ==
    /\ SetCallback(t)
    /\ ~m_pred
    /\ m_pred' = TRUE
    /\ UNCHANGED <<m_start_callback, m_result_callback, m_exit_callback>>

\* Thread::setStartCallback
Thread_setStartCallback(t) ==
    /\ SetCallback(t)
    /\ ~m_start_callback
    /\ m_start_callback' = TRUE
    /\ UNCHANGED <<m_pred, m_result_callback, m_exit_callback>>

\* Thread::setResultCallback
Thread_setResultCallback(t) ==
    /\ SetCallback(t)
    /\ ~m_result_callback
    /\ m_result_callback' = TRUE
    /\ UNCHANGED <<m_pred, m_start_callback, m_exit_callback>>

\* Thread::setExitCallback
Thread_setExitCallback(t) ==
    /\ SetCallback(t)
    /\ ~m_exit_callback
    /\ m_exit_callback' = TRUE
    /\ UNCHANGED <<m_pred, m_start_callback, m_result_callback>>

\* Thread::run up to the construction of the std::thread: the two tests,
\* the stores to m_loop and the start of the worker
Thread_run(t) ==
    /\ CanCall(t) /\ Alive
    /\ calls' = [calls EXCEPT ![t] = @ - 1]
    /\ \E m \in RunMode :
         IF hasWorker
         THEN /\ Answered(t, "run", "false", "exists")
              /\ UNCHANGED <<pc, m_loop, worker, workers, runVars>>
         ELSE IF ~m_callable
         THEN /\ Answered(t, "run", "false", "no_callable")
              /\ UNCHANGED <<pc, m_loop, worker, workers, runVars>>
         ELSE /\ m_loop' = (m = "LOOP")
              /\ worker' = "started"
              /\ workers' = workers + 1
              /\ mode' = m
              /\ events' = <<>>
              /\ pc' = [pc EXCEPT ![t] = "run_store"]
              /\ last' = NoEvent
    /\ UNCHANGED <<ub, m_callable, m_thread_ptr, runs, callbackVars>>
    /\ ThreadFrame

\* Thread::run, the assignment of the new std::thread to m_thread_ptr and
\* the return
Thread_run_store(t) ==
    /\ pc[t] = "run_store" /\ Alive
    /\ m_thread_ptr' = "set"
    /\ runs' = runs + 1
    /\ pc' = [pc EXCEPT ![t] = "idle"]
    /\ Answered(t, "run", "true", "started")
    /\ UNCHANGED <<calls, ub, m_callable, m_loop, worker, workers>>
    /\ UNCHANGED <<callbackVars, runVars>>
    /\ ThreadFrame

\* Thread::stop up to the join: the store to m_loop and the test of the
\* handle
Thread_stop(t) ==
    /\ CanCall(t) /\ Alive
    /\ calls' = [calls EXCEPT ![t] = @ - 1]
    /\ m_loop' = FALSE
    /\ IF ~hasWorker
       THEN /\ Answered(t, "stop", "false", "no_worker")
            /\ UNCHANGED <<pc, events>>
       ELSE /\ pc' = [pc EXCEPT ![t] = "stop_join"]
            /\ events' = Append(events, Entry("stop", 0))
            /\ last' = NoEvent
    /\ UNCHANGED <<ub, m_callable, m_thread_ptr, worker, workers, runs>>
    /\ UNCHANGED <<callbackVars, mode>>
    /\ ThreadFrame

\* Thread::stop, the join of the worker once it has left loop(), the reset
\* of the handle and the return
Thread_join(t) ==
    /\ pc[t] = "stop_join" /\ Alive
    /\ workerLeft
    /\ m_thread_ptr' = "null"
    /\ worker' = "none"
    /\ workers' = workers - 1
    /\ pc' = [pc EXCEPT ![t] = "idle"]
    /\ Answered(t, "stop", "true", "joined")
    /\ UNCHANGED <<calls, ub, m_callable, m_loop, runs>>
    /\ UNCHANGED <<callbackVars, runVars>>
    /\ ThreadFrame

\* a step of the worker to w, in which it invokes what ev lists
WorkerStep(w, ev) ==
    /\ worker' = w
    /\ events' = events \o ev
    /\ last' = NoEvent
    /\ UNCHANGED <<pc, calls, m_callable, m_loop, m_thread_ptr, workers, runs>>
    /\ UNCHANGED <<callbackVars, mode>>
    /\ ThreadFrame

\* Thread::loop, m_thread_ptr->native_handle(): the read races with the
\* assignment in run(); through a handle that is not stored yet the worker
\* brings the process down or goes on
loop_handle ==
    /\ worker = "started"
    /\ IF m_thread_ptr = "null"
       THEN ub' = TRUE /\ \E w \in {"crashed", "starting"} : WorkerStep(w, <<>>)
       ELSE UNCHANGED ub /\ WorkerStep("starting", <<>>)

\* a worker that goes to the callable without the start callback
startCallback_skipped ==
    /\ worker = "starting"
    /\ UNCHANGED ub
    /\ WorkerStep("calling", <<>>)

\* Thread::startCallback
startCallback ==
    /\ worker = "starting"
    /\ UNCHANGED ub
    /\ WorkerStep("calling", IF m_start_callback THEN <<Entry("start", 0)>> ELSE <<>>)

\* Thread::call: the callable is invoked, which run() has found set, and
\* its result is handed to the result callback; the n-th invocation
\* returns n
loop_call ==
    /\ worker = "calling"
    /\ UNCHANGED ub
    /\ LET result == Invoked + 1
       IN  WorkerStep("testing",
                      <<Entry("call", result)>> \o
                      (IF m_result_callback THEN <<Entry("result", result)>> ELSE <<>>))

\* Thread::isContinue, the test of m_loop; the callable is invoked at most
\* MaxLoops times in a run
loop_isContinue ==
    /\ worker = "testing"
    /\ UNCHANGED ub
    /\ IF ~loopFlag
       THEN WorkerStep("exiting", <<>>)
       ELSE IF m_pred
            THEN WorkerStep("pred", <<>>)
            ELSE Invoked < MaxLoops /\ WorkerStep("calling", <<>>)

\* Thread::isContinue, the call of the predicate, which returns b
loop_pred ==
    /\ worker = "pred"
    /\ UNCHANGED ub
    /\ \E b \in BOOLEAN :
         IF b
         THEN Invoked < MaxLoops /\ WorkerStep("calling", <<Entry("pred", 1)>>)
         ELSE WorkerStep("exiting", <<Entry("pred", 0)>>)

\* Thread::exitCallback and the end of loop()
exitCallback ==
    /\ worker = "exiting"
    /\ UNCHANGED ub
    /\ WorkerStep("finished", IF m_exit_callback THEN <<Entry("exit", 0)>> ELSE <<>>)

\* --------------------------------------------------------- class Variable
\* a Variable<int> constructed with 0; every thread but the controller calls
\* invoke(add, 1), with add = [](int& val, int addend) { val = val + addend; },
\* or get()

\* a mutex that anybody can take at any time
lockFree_always == TRUE

\* std::mutex::lock succeeds when nobody holds the mutex
lockFree == v_lock = "none"

\* what the calls on a Variable leave alone
VariableFrame ==
    /\ UNCHANGED <<queueVars, waitVars, elem, timedout, ref>>
    /\ UNCHANGED <<pushedOK, poppedLog, dropped, discardLog, ub>>
    /\ Track
    /\ UNCHANGED <<callerVars, pairVars, threadVars>>

\* thread t calls o, one of invoke and get, and comes to the lock_guard
StartVariable(t, o) ==
    /\ calls' = [calls EXCEPT ![t] = @ - 1]
    /\ pc' = [pc EXCEPT ![t] = "v_lock"]
    /\ op' = [op EXCEPT ![t] = o]
    /\ last' = NoEvent
    /\ UNCHANGED variableVars
    /\ VariableFrame

\* Variable<T>::invoke(add, 1) is called
Variable_invoke(t) ==
    /\ CanWait(t)
    /\ StartVariable(t, "invoke")

\* Variable<T>::get is called
Variable_get(t) ==
    /\ CanWait(t)
    /\ StartVariable(t, "get")

\* the lock_guard of invoke or get takes m_lock
Variable_lock(t) ==
    /\ pc[t] = "v_lock"
    /\ lockFree
    /\ v_lock' = t
    /\ pc' = [pc EXCEPT ![t] = IF op[t] = "invoke" THEN "v_read" ELSE "v_copy"]
    /\ last' = NoEvent
    /\ UNCHANGED <<op, calls, v_value, v_tmp, v_done>>
    /\ VariableFrame

\* add reads val
Variable_read(t) ==
    /\ pc[t] = "v_read"
    /\ v_tmp' = [v_tmp EXCEPT ![t] = v_value]
    /\ pc' = [pc EXCEPT ![t] = "v_write"]
    /\ last' = NoEvent
    /\ UNCHANGED <<op, calls, v_value, v_lock, v_done>>
    /\ VariableFrame

\* add stores val + addend
Variable_write(t) ==
    /\ pc[t] = "v_write"
    /\ v_value' = v_tmp[t] + 1
    /\ v_done' = v_done + 1
    /\ pc' = [pc EXCEPT ![t] = "v_unlock"]
    /\ last' = NoEvent
    /\ UNCHANGED <<op, calls, v_lock, v_tmp>>
    /\ VariableFrame

\* get copies m_value into its result
Variable_copy(t) ==
    /\ pc[t] = "v_copy"
    /\ v_tmp' = [v_tmp EXCEPT ![t] = v_value]
    /\ pc' = [pc EXCEPT ![t] = "v_unlock"]
    /\ last' = NoEvent
    /\ UNCHANGED <<op, calls, v_value, v_lock, v_done>>
    /\ VariableFrame

\* the lock_guard releases m_lock and the call returns, get with its copy
Variable_unlock(t) ==
    /\ pc[t] = "v_unlock"
    /\ v_lock' = "none"
    /\ v_tmp' = [v_tmp EXCEPT ![t] = 0]
    /\ pc' = [pc EXCEPT ![t] = "idle"]
    /\ op' = [op EXCEPT ![t] = "none"]
    /\ last' = [NoEvent EXCEPT !.thread = t, !.op = op[t], !.ret = "value",
                               !.out = IF op[t] = "get" THEN v_tmp[t] ELSE NoElem]
    /\ UNCHANGED <<calls, v_value, v_done>>
    /\ VariableFrame

\* ------------------------------------------------------------------- Next
Next ==
    \E t \in Threads :
        \/ push(t)
        \/ waitToPush_status(t)
        \/ waitToPush_after(t)
        \/ push_status(t)
        \/ pushWithLock(t)
        \/ pop(t)
        \/ waitToPop_status(t)
        \/ waitToPop_after(t)
        \/ popWithLock(t)
        \/ updateStatus(t)
        \/ waitFor_enter(t)
        \/ waitFor_pred(t)
        \/ waitFor_block(t)
        \/ waitFor_timeout(t)
        \/ waitFor_spurious(t)
        \/ openPush(t)
        \/ closePush(t)
        \/ openPop(t)
        \/ closePop(t)
        \/ setDiscardedCallback(t)

Spec == Init /\ [][Next]_vars

\* ------------------------------------- the queue with its gate waits
\* a NO_DISCARD queue of capacity 1 with a controllable side; every thread
\* may wait for its gate instead of pushing or popping
GateSettings ==
    {s \in Settings : s.discard = "NO_DISCARD" /\ s.size = 1
                      /\ s.control \in {"PUSH", "POP", "FULL_CONTROL"}}

GateWorkloads ==
    { [t \in Threads |->
         IF t \in Controllers THEN MaxControl
         ELSE IF t = "p1" THEN MaxCalls
         ELSE IF t = "c2" THEN 0
         ELSE MaxCalls - 1] }

GateInit == InitWith(GateSettings, GateWorkloads)

\* no discard callback is installed: a NO_DISCARD queue discards nothing
GateNext ==
    \E t \in Threads :
        \/ waitPushOpen(t)
        \/ waitPopOpen(t)
        \/ push(t)
        \/ waitToPush_status(t)
        \/ waitToPush_after(t)
        \/ push_status(t)
        \/ pushWithLock(t)
        \/ pop(t)
        \/ waitToPop_status(t)
        \/ waitToPop_after(t)
        \/ popWithLock(t)
        \/ updateStatus(t)
        \/ waitFor_enter(t)
        \/ waitFor_pred(t)
        \/ waitFor_block(t)
        \/ waitFor_timeout(t)
        \/ waitFor_spurious(t)
        \/ openPush(t)
        \/ closePush(t)
        \/ openPop(t)
        \/ closePop(t)

GateSpec == GateInit /\ [][GateNext]_vars

\* ------------------------------ every call of the queue's interface
\* one producer, one consumer and the controller on a queue of any settings:
\* pushes, pops, gate waits, gate calls and the discard callback together
InterfaceWorkloads ==
    { [t \in Threads |->
         IF t \in Controllers THEN MaxControl
         ELSE IF t = "p1" THEN MaxCalls
         ELSE IF t = "c1" THEN MaxCalls - 1
         ELSE 0] }

InterfaceInit == InitWith(Settings, InterfaceWorkloads)

InterfaceNext ==
    \E t \in Threads :
        \/ waitPushOpen(t)
        \/ waitPopOpen(t)
        \/ push(t)
        \/ waitToPush_status(t)
        \/ waitToPush_after(t)
        \/ push_status(t)
        \/ pushWithLock(t)
        \/ pop(t)
        \/ waitToPop_status(t)
        \/ waitToPop_after(t)
        \/ popWithLock(t)
        \/ updateStatus(t)
        \/ waitFor_enter(t)
        \/ waitFor_pred(t)
        \/ waitFor_block(t)
        \/ waitFor_timeout(t)
        \/ waitFor_spurious(t)
        \/ openPush(t)
        \/ closePush(t)
        \/ openPop(t)
        \/ closePop(t)
        \/ setDiscardedCallback(t)

InterfaceSpec == InterfaceInit /\ [][InterfaceNext]_vars

\* --------------------------------------- two instances of Queue<T>
\* a NO_DISCARD queue of capacity 1 whose push side may be controllable, one
\* producer and one consumer on it, and the controller who also uses the
\* second instance
PairSettings ==
    {s \in Settings : s.discard = "NO_DISCARD" /\ s.size = 1
                      /\ s.control \in {"NO_CONTROL", "PUSH"}}

PairWorkloads ==
    { [t \in Threads |->
         IF t \in Controllers THEN MaxControl + 1
         ELSE IF t = "p1" THEN MaxCalls
         ELSE IF t = "c1" THEN MaxCalls - 1
         ELSE 0] }

PairInit == InitWith(PairSettings, PairWorkloads)

PairNext ==
    \E t \in Threads :
        \/ other_push(t)
        \/ other_pop(t)
        \/ other_setPush(t)
        \/ other_destroy(t)
        \/ push(t)
        \/ waitToPush_status(t)
        \/ waitToPush_after(t)
        \/ push_status(t)
        \/ pushWithLock(t)
        \/ pop(t)
        \/ waitToPop_status(t)
        \/ waitToPop_after(t)
        \/ popWithLock(t)
        \/ updateStatus(t)
        \/ waitFor_enter(t)
        \/ waitFor_pred(t)
        \/ waitFor_block(t)
        \/ waitFor_timeout(t)
        \/ waitFor_spurious(t)
        \/ openPush(t)
        \/ closePush(t)

PairSpec == PairInit /\ [][PairNext]_vars

\* ---------------------------------------------------- class Wait on its own
\* three waiters with one wait each and one thread that notifies, exits and
\* sets the flag
WaitWorkloads ==
    { [t \in Threads |->
         IF t \in Controllers THEN MaxControl + 1
         ELSE IF t = "c2" THEN 0
         ELSE MaxCalls - 1] }

\* the queue is not used: any one Settings value
WaitSettings == {s \in Settings : s.discard = "NO_DISCARD" /\ s.control = "NO_CONTROL"
                                  /\ s.size = MaxCapacity}

WaitInit == InitWith(WaitSettings, WaitWorkloads)

WaitNext ==
    \E t \in Threads :
        \/ Wait_wait(t)
        \/ Wait_wait_pred(t)
        \/ Wait_waitFor(t)
        \/ Wait_waitFor_pred(t)
        \/ Wait_notify(t)
        \/ Wait_exit(t)
        \/ setPredCalled(t)
        \/ waitFor_enter(t)
        \/ waitFor_pred(t)
        \/ waitFor_block(t)
        \/ waitFor_timeout(t)
        \/ waitFor_spurious(t)

WaitSpec == WaitInit /\ [][WaitNext]_vars

\* ------------------------------------------------- class Thread on its own
\* the owner invokes, runs and stops; nobody else does anything
ThreadWorkloads ==
    { [t \in Threads |-> IF t \in Controllers THEN MaxControl + 3 ELSE 0] }

ThreadInit == InitWith(WaitSettings, ThreadWorkloads)

ThreadNext ==
    \/ \E t \in Threads :
         \/ Thread_invoke(t)
         \/ Thread_setPredicate(t)
         \/ Thread_setStartCallback(t)
         \/ Thread_setResultCallback(t)
         \/ Thread_setExitCallback(t)
         \/ Thread_run(t)
         \/ Thread_run_store(t)
         \/ Thread_stop(t)
         \/ Thread_join(t)
    \/ loop_handle
    \/ startCallback
    \/ loop_call
    \/ loop_isContinue
    \/ loop_pred
    \/ exitCallback

ThreadSpec == ThreadInit /\ [][ThreadNext]_vars

\* the callable, the predicate and the callbacks return, so the worker takes
\* its next step in loop(), and join returns once the worker has left it
ThreadFairness ==
    /\ WF_vars(loop_handle)
    /\ WF_vars(startCallback)
    /\ WF_vars(loop_call)
    /\ WF_vars(loop_isContinue)
    /\ WF_vars(loop_pred)
    /\ WF_vars(exitCallback)
    /\ \A t \in Controllers : WF_vars(Thread_join(t))

ThreadLiveSpec == ThreadInit /\ [][ThreadNext]_vars /\ ThreadFairness

\* ----------------------------------------------- class Variable on its own
\* four threads share one Variable<int>
VariableWorkloads ==
    { [t \in Threads |->
         IF t \in Controllers THEN 0
         ELSE IF t = "p1" THEN MaxCalls
         ELSE MaxCalls - 1] }

VariableInit == InitWith(WaitSettings, VariableWorkloads)

VariableNext ==
    \E t \in Threads :
        \/ Variable_invoke(t)
        \/ Variable_get(t)
        \/ Variable_lock(t)
        \/ Variable_read(t)
        \/ Variable_write(t)
        \/ Variable_copy(t)
        \/ Variable_unlock(t)

VariableSpec == VariableInit /\ [][VariableNext]_vars

\* ------------------------------------------------------------- fairness
\* the steps a thread takes inside a call once the scheduler runs it; the
\* start of a call, the expiry of a timeout and a spurious wake-up are not
\* among them: the first is the caller's choice, the other two come, if at
\* all, after a time no close or push can shorten
Step(t) ==
    \/ waitToPush_status(t)
    \/ waitToPush_after(t)
    \/ push_status(t)
    \/ pushWithLock(t)
    \/ waitToPop_status(t)
    \/ waitToPop_after(t)
    \/ popWithLock(t)
    \/ updateStatus(t)
    \/ waitFor_enter(t)
    \/ waitFor_pred(t)
    \/ waitFor_block(t)

Fairness == \A t \in Threads : WF_vars(Step(t))

\* one producer, one consumer and the controller on a queue of capacity 1
\* with one controllable side
LiveSettings ==
    {s \in Settings : s.size = 1 /\ s.control \in {"PUSH", "POP"}}

LiveWorkloads ==
    { [t \in Threads |->
         IF t \in Controllers THEN MaxControl
         ELSE IF t = "p1" THEN MaxCalls
         ELSE IF t = "c1" THEN MaxCalls - 1
         ELSE 0] }

InitLive == InitWith(LiveSettings, LiveWorkloads)

LiveSpec == InitLive /\ [][Next]_vars /\ Fairness

\* ================================================================ claims

\* C1: in every reachable state the buffer holds at most capacity elements,
\* for every discard policy and every interleaving of push, pop and the gates
C1_CapacityInvariant == Len(m_queue) <= m_settings.size

\* C2: a DISCARD_OLDEST push that found the queue full returns true and
\* leaves the incoming value at the tail of a buffer of capacity elements
\* (stated for the pushes whose discarded element was copied intact)
C2_DiscardOldestAppends ==
    (last.how = "discard_oldest" /\ last.out = last.head /\ ~ub) =>
        /\ last.ret = "true"
        /\ Len(m_queue) = m_settings.size
        /\ m_queue[Len(m_queue)] = last.elem

\* C3: the DISCARD_OLDEST branch of push calls the discard callback exactly
\* once, with the element it removed from the head of the buffer, and never
\* with the incoming value
C3_DiscardsOldHead ==
    [][\A t \in Producers :
         (pc[t] \in {"popwl_update", "popwl_update_ub"} /\ pc'[t] = "idle"
          /\ m_discarded_callback)
         => /\ discardLog' = Append(discardLog, ref[t])
            /\ ref[t] \in Range(pushedOK)
            /\ ref[t] # elem[t]]_vars

\* C4: when nothing is discarded (policy NO_DISCARD) the values popped so
\* far are, in order, the first values whose push succeeded
C4_FIFO ==
    m_settings.discard = "NO_DISCARD" => IsPrefix(poppedLog, pushedOK)

\* no thread is inside a call of its own that could still wake thread t
NobodyRuns(t) == \A u \in Threads \ {t} : pc[u] \in {"idle", "blocked"}

\* C5: a consumer blocked in pop is released by closePop: it is never left
\* blocked behind a closed pop gate with no thread running that could wake it
C5_ClosePopReleases ==
    \A t \in Consumers : ~(pc[t] = "blocked" /\ ~m_open_pop /\ NobodyRuns(t))

InFlight(v) == Cardinality({t \in Threads : ref[t] = v})

\* C7: every value whose push returned true is exactly once in the popped
\* values, the discarded values, the buffer or the hands of a thread that has
\* removed it and not yet returned (stated for the runs in which every
\* removed element was copied intact)
C7_ExactlyOnce ==
    (~ub /\ Garbage \notin Range(poppedLog) \cup Range(dropped)) =>
    \A v \in Range(pushedOK) :
        Count(poppedLog, v) + Count(dropped, v) + Count(m_queue, v) + InFlight(v) = 1

\* C8: a DISCARD_NEWEST push of v into a buffer that is full and push-open
\* from its call to its return returns false, hands v once to onDiscarded
\* and leaves v out of the buffer
C8_DiscardNewestFrame ==
    (/\ last.op = "push"
     /\ last.stayed
     /\ m_settings.discard = "DISCARD_NEWEST")
    => /\ last.ret = "false"
       /\ Count(dropped, last.elem) = 1
       /\ last.elem \notin Range(m_queue)

\* C9: a NO_DISCARD push with a finite timeout, on a buffer that is full and
\* push-open from its call to its return, returns false, and its value is
\* neither in the buffer nor handed to onDiscarded
C9_NoDiscardTimeout ==
    (/\ last.op = "push"
     /\ last.stayed
     /\ m_settings.discard = "NO_DISCARD"
     /\ timeout_ms(last.thread) = ShortTimeout)
    => /\ last.ret = "false"
       /\ last.elem \notin Range(m_queue)
       /\ last.elem \notin Range(dropped)

\* C10: a push called with the push gate closed, and a pop called with the
\* pop gate closed, returns false in that very step, whatever its timeout
\* and the status, and changes neither buffer, size, status nor discards
C10_ClosedGateFailsAtOnce ==
    [][\A t \in Producers \cup Consumers :
         (/\ calls'[t] # calls[t]
          /\ \/ t \in Producers /\ ~m_open_push
             \/ t \in Consumers /\ ~m_open_pop)
         => /\ pc'[t] = "idle"
            /\ last'.thread = t
            /\ last'.ret = "false"
            /\ m_queue' = m_queue
            /\ m_size' = m_size
            /\ m_status' = m_status
            /\ dropped' = dropped
            /\ discardLog' = discardLog]_vars

\* a push with the WAIT_FOREVER timeout has just failed on the closed push
\* gate of a full queue
C10_Witness ==
    /\ last.how = "closed"
    /\ last.op = "push"
    /\ timeout_ms(last.thread) = WAIT_FOREVER
    /\ ~m_open_push
    /\ m_status = "FULL"

\* what a call that changes no state leaves alone: everything but the
\* caller's budget and the record of the last call
Untouched ==
    UNCHANGED <<queueVars, waitVars, localVars, pushedOK, poppedLog, dropped,
                discardLog, ub, stayed, predCalled>>

\* C11: as long as no gate call has been made each gate is open iff its side
\* is not under the control policy; with FULL_CONTROL a push before any gate
\* call fails at once on the closed gate, and the push of a lone producer
\* after openPush(), with nothing pushed before, returns true
C11_GatesAsConstructed ==
    /\ calls["k"] = MaxControl =>
         /\ m_settings.control = "FULL_CONTROL" => ~m_open_push /\ ~m_open_pop
         /\ m_settings.control = "PUSH" => ~m_open_push /\ m_open_pop
         /\ m_settings.control = "POP" => m_open_push /\ ~m_open_pop
         /\ m_settings.control = "NO_CONTROL" => m_open_push /\ m_open_pop
    /\ (/\ m_settings.control = "FULL_CONTROL"
        /\ calls["k"] = MaxControl
        /\ last.op = "push")
       => last.ret = "false" /\ last.how = "closed"
    /\ (/\ m_settings.control = "FULL_CONTROL"
        /\ calls["k"] = MaxControl - 1
        /\ m_open_push
        /\ last.op = "push"
        /\ Range(pushedOK) \subseteq {last.elem})
       => /\ last.ret = "true"
          /\ m_queue = <<last.elem>>

\* under FULL_CONTROL the first push of p1 failed and, openPush() being the
\* only gate call made, its second push has just succeeded
C11_Witness ==
    /\ m_settings.control = "FULL_CONTROL"
    /\ calls["k"] = MaxControl - 1
    /\ m_open_push
    /\ last.thread = "p1"
    /\ last.op = "push"
    /\ last.ret = "true"
    /\ calls["p1"] = MaxCalls - 2
    /\ pushedOK = <<last.elem>>

\* C12: the gate of a side that is not under the control policy is open
\* before and after every step, an open or close call on that side changes
\* no state, and no push or pop fails on a closed gate of that side
C12_PinnedOpen ==
    [][/\ m_settings.control \in {"POP", "NO_CONTROL"}
            => m_open_push /\ m_open_push'
       /\ m_settings.control \in {"PUSH", "NO_CONTROL"}
            => m_open_pop /\ m_open_pop'
       /\ (/\ last'.op \in {"openPush", "closePush"}
           /\ m_settings.control \in {"POP", "NO_CONTROL"}) => Untouched
       /\ (/\ last'.op \in {"openPop", "closePop"}
           /\ m_settings.control \in {"PUSH", "NO_CONTROL"}) => Untouched
       /\ (last'.op = "push" /\ last'.how \in {"closed", "closed_after_wait"})
            => m_settings.control \in {"PUSH", "FULL_CONTROL"}
       /\ (last'.op = "pop" /\ last'.how \in {"closed", "closed_after_wait"})
            => m_settings.control \in {"POP", "FULL_CONTROL"}]_vars

\* closePush() has just returned on a queue whose push side is not under
\* control: the gate is open and a blocked thread is still blocked
C12_Witness ==
    /\ m_settings.control = "POP"
    /\ last.op = "closePush"
    /\ m_open_push
    /\ \E t \in Threads : pc[t] = "blocked"

\* C13: a wait of class Wait, in any of its four variants, that was called
\* after exit() never gets past the first test of its predicate, so it never
\* blocks, and it returns EXIT, whatever the flag its predicate reads and
\* whatever notify calls are made
C13_ExitIsTerminal ==
    /\ \A t \in Waiters :
         (op[t] \in WaitOps /\ stayed[t]) => pc[t] = "wf_enter"
    /\ (last.op \in WaitOps /\ last.stayed) => last.ret = "EXIT"

\* a waitFor(d, pred) called after exit() has just returned EXIT while its
\* predicate's flag is false
C13_Witness ==
    /\ last.op = "waitFor_pred"
    /\ last.stayed
    /\ last.ret = "EXIT"
    /\ ~predCalled
    /\ m_exit

\* C14: a wait() or wait(pred) that is pending when exit() is called returns:
\* it is never left blocked, with the exit flag set, while no other thread is
\* running that could wake it
C14_PendingWaitsExit ==
    \A t \in Waiters :
        ~(pc[t] = "blocked" /\ op[t] \in Untimed /\ m_exit /\ NobodyRuns(t))

\* C15: once set the exit flag stays set at every step, of notify, of any
\* wait, of the predicate's flag and of a second exit(), and a second exit()
\* leaves both flags of the Wait as they are
C15_ExitMonotonic ==
    [][/\ m_exit => m_exit'
       /\ (m_exit /\ last'.op = "exit")
            => /\ last'.how = "again"
               /\ UNCHANGED <<m_exit, m_internal_pred_flag, predCalled, w_lock>>]_vars

\* exit() has just been called a second time and the flag is still set
C15_Witness ==
    /\ last.op = "exit"
    /\ last.how = "again"
    /\ m_exit

\* the gate that call o, waitPushOpen or waitPopOpen, waits for
GateOf(o) == IF o = "waitPushOpen" THEN m_open_push ELSE m_open_pop

\* C16: waitPushOpen / waitPopOpen returns true only with its gate open when
\* its wait ends; on a gate that is closed from its call to its return it
\* returns false through the timeout; on a gate pinned open it never blocks
\* and returns true; the status of the queue plays no part
C16_GateWaits ==
    /\ (last.op \in GateOps /\ last.ret = "true") => GateOf(last.op)
    /\ (last.op \in GateOps /\ last.stayed)
         => last.ret = "false" /\ last.how = "timeout"
    /\ \A t \in Threads :
         \/ op[t] = "waitPushOpen" /\ m_settings.control = "POP"
         \/ op[t] = "waitPopOpen" /\ m_settings.control = "PUSH"
         => pc[t] \in {"wf_enter", "wf_pred"}
    /\ \/ last.op = "waitPushOpen" /\ m_settings.control = "POP"
       \/ last.op = "waitPopOpen" /\ m_settings.control = "PUSH"
       => last.ret = "true"

\* waitPushOpen has just timed out on a push gate that stayed closed, on a
\* full queue
C16_Witness ==
    /\ last.op = "waitPushOpen"
    /\ last.stayed
    /\ last.ret = "false"
    /\ last.how = "timeout"
    /\ m_status = "FULL"
    /\ Len(m_queue) = m_settings.size
    /\ ~ub
    /\ ~m_open_push

C20_PushGateNeverEndsPop ==
    (last.op = "pop" /\ pushedOK = <<>>) => last.ret = "false"

\* the success condition of a wait o of class Wait, apart from the exit
\* flag: the cleared internal flag, or the caller's predicate
SuccessHolds(o) == IF o \in {"wait", "waitFor"} THEN internalPred ELSE predCalled

\* C21: a waiter of any of the four variants that a notify() found blocked,
\* and whose success condition holds when it returns without exit() having
\* been called, returns SUCCESS
C21_NotifyReleasesAll ==
    (/\ last.op \in WaitOps
     /\ last.notified = "blocked"
     /\ ~m_exit
     /\ last.op \in {"wait_pred", "waitFor_pred"} => predCalled)
        => last.ret = "SUCCESS"

\* no waiter but t has called a wait yet
OnlyWaiter(t) ==
    \A u \in Waiters \ {t} :
        op[u] = "none" /\ \E w \in WaitWorkloads : calls[u] = w[u]

\* C22: with one waiter and one notifier, a wait() that began before a
\* notify() is never left blocked after that notify() with no thread running
\* that could wake it
C22_NotifyNotLost ==
    \A t \in Waiters :
        ~(/\ pc[t] = "blocked"
          /\ op[t] = "wait"
          /\ notified[t] # "no"
          /\ OnlyWaiter(t)
          /\ NobodyRuns(t))

\* C23: a wait() or waitFor(d) that a notify() found blocked does not block
\* again, whatever waits other threads start in the meantime
C23_WokenWaiterSeesNotify ==
    \A t \in Waiters :
        (notified[t] = "blocked" /\ op[t] \in {"wait", "waitFor"} /\ ~m_exit)
            => pc[t] # "blocked"

\* C24: waitFor(d) returns SUCCESS only when notify() was called after the
\* call armed the flag, and waitFor(d, pred) only when pred is true as the
\* wait ends; with no notify and no exit, resp. with pred false and no exit,
\* the result is TIMEOUT
C24_SuccessHasCause ==
    /\ (last.op = "waitFor" /\ last.ret = "SUCCESS") => last.notified # "no"
    /\ (last.op = "waitFor_pred" /\ last.ret = "SUCCESS") => predCalled
    /\ (last.op = "waitFor" /\ last.notified = "no" /\ ~m_exit)
           => last.ret = "TIMEOUT"
    /\ (last.op = "waitFor_pred" /\ ~predCalled /\ ~m_exit)
           => last.ret = "TIMEOUT"

\* a waitFor(d) that heard no notify has timed out although the flag of the
\* predicate variants is set
C24_Witness ==
    /\ last.op = "waitFor"
    /\ last.ret = "TIMEOUT"
    /\ last.notified = "no"
    /\ predCalled
    /\ ~m_exit

\* C25: a wait of any variant that returns while the exit flag is set and its
\* success condition holds returns EXIT
C25_ExitBeforeSuccess ==
    (last.op \in WaitOps /\ m_exit /\ SuccessHolds(last.op))
        => last.ret = "EXIT"

\* a wait(pred) that began before exit() has returned EXIT while its
\* predicate is true
C25_Witness ==
    /\ last.op = "wait_pred"
    /\ ~last.stayed
    /\ last.ret = "EXIT"
    /\ predCalled
    /\ m_exit

\* the wait of a push or a pop of thread t goes on to the re-test of its gate
WaitEnds(t) == pc'[t] \in {"wtp_after", "wtpop_after"}

\* the second operand of the predicate of o evaluated on this queue
OwnStatus(o) == IF o = "push" THEN m_status # "FULL" ELSE m_status # "EMPTY"

\* C26: with a second instance of Queue<T> in the program, every evaluation
\* of the predicate a push or a pop on this queue waits on gives what this
\* queue's own gate and own status give: the wait ends at the gate test
\* exactly when this queue's push gate is closed, and at the status test
\* exactly when this queue is not full (push) or not empty (pop)
C26_OwnStateOnly ==
    [][\A t \in Threads :
         /\ (op[t] \in QueueOps /\ pc[t] = "wf_enter" /\ pc'[t] # "wf_enter")
               => (WaitEnds(t) <=> ~m_open_push)
         /\ (op[t] \in QueueOps /\ pc[t] = "wf_pred" /\ pc'[t] # "wf_pred")
               => (WaitEnds(t) <=> OwnStatus(op[t]))]_vars

\* C27: run() returns true exactly when a callable is set and no worker
\* object exists, a finished ONCE worker that was not stopped counting as
\* existing; a run() that returns true has started one worker, one that
\* returns false has changed nothing; there is never more than one worker
C27_RunStartsOneWorker ==
    [][/\ workers' \in {0, 1}
       /\ last'.op = "run" =>
            /\ last'.ret = "true" <=> (m_callable /\ m_thread_ptr = "null")
            /\ last'.ret = "true" =>
                 (workers' = 1 /\ worker' # "none" /\ m_thread_ptr' = "set")
            /\ last'.ret = "false" => UNCHANGED threadVars]_vars

\* run() has returned false because the ONCE worker, which has finished,
\* was not stopped
C27_Witness ==
    /\ last.op = "run"
    /\ last.ret = "false"
    /\ last.how = "exists"
    /\ m_callable
    /\ worker = "finished"
    /\ workers = 1

\* C28: stop() returns true exactly when a worker object exists, and then
\* only once the worker has left loop() and is joined, leaving no worker and
\* no handle; in the state a successful stop() leaves, the callable is set,
\* and a run() called next does not return false
C28_StopJoinsAndRestarts ==
    [][/\ last'.op = "stop" =>
            /\ last'.ret = "true" <=> m_thread_ptr # "null"
            /\ last'.ret = "true" =>
                 /\ worker = "finished"
                 /\ worker' = "none" /\ workers' = 0 /\ m_thread_ptr' = "null"
       /\ (last.op = "stop" /\ last.ret = "true") =>
            /\ m_callable /\ m_thread_ptr = "null"
            /\ ~(last'.op = "run" /\ last'.ret = "false")]_vars

\* the Thread has been run and stopped a second time
C28_Witness ==
    /\ last.op = "stop"
    /\ last.ret = "true"
    /\ runs = 2
    /\ workers = 0

\* the threads inside the critical section of invoke or get
InVariable == {t \in Threads : pc[t] \in {"v_read", "v_write", "v_copy", "v_unlock"}}

\* C29: at most one thread is inside invoke or get at a time; the value is
\* the number of invocations of add that have stored their result, so no
\* update is lost, and every get() returns that number
C29_InvokeExclusive ==
    /\ Cardinality(InVariable) <= 1
    /\ v_value = v_done
    /\ last.op = "get" => last.out = v_done

\* a get() has returned 2 while another thread's invoke is waiting for the
\* lock
C29_Witness ==
    /\ last.op = "get"
    /\ last.out = 2
    /\ \E t \in Threads : pc[t] = "v_lock" /\ op[t] = "invoke"

\* C30: whenever the buffer lock is free, the recorded size is the length of
\* the buffer and the status is the one that size and capacity give
C30_StatusFollowsBuffer ==
    m_lock = "none" =>
        /\ m_size = Len(m_queue)
        /\ m_status = StatusOf(Len(m_queue), m_settings.size)

\* C31: a step that is not one of the four gate calls, be it of a push, a
\* pop, a gate wait, a timeout, a discard or setDiscardedCallback, leaves
\* both gate flags as they are; openPush and closePush leave the pop gate and
\* the buffer as they are, openPop and closePop the push gate and the buffer
C31_GatesChangeInGateCalls ==
    [][/\ last'.op \notin {"openPush", "closePush", "openPop", "closePop"}
            => UNCHANGED <<m_open_push, m_open_pop>>
       /\ last'.op \in {"openPush", "closePush"} => UNCHANGED <<m_open_pop, m_queue>>
       /\ last'.op \in {"openPop", "closePop"} => UNCHANGED <<m_open_push, m_queue>>]_vars

\* openPush has just opened the push gate of a queue that holds an element
\* and whose pop gate is closed
C31_Witness ==
    /\ last.op = "openPush"
    /\ m_open_push
    /\ ~m_open_pop
    /\ m_queue # <<>>

\* C32: a thread holds the buffer lock only between pushWithLock or
\* popWithLock and the end of updateStatus, and the Wait lock only while it
\* evaluates the predicate of its wait, so a thread suspended in a blocking
\* call holds neither lock, no thread that holds one of the two locks waits
\* for the other, and no two threads hold one lock each while waiting for
\* the other's
C32_NoLockHeldWhileBlocked ==
    LET \* where a thread stands while it holds the buffer lock, while it
        \* holds the Wait lock, and while it waits to acquire either
        HoldsBufferLock == {"pwl_update", "popwl_update", "popwl_update_ub"}
        HoldsWaitLock == {"wf_pred", "wf_block"}
        WantsBufferLock == {"pwl_lock", "popwl_lock"}
        WantsWaitLock == {"wf_enter"}
    IN  /\ \A t \in Threads :
             /\ m_lock = t => pc[t] \in HoldsBufferLock
             /\ w_lock = t => pc[t] \in HoldsWaitLock
             /\ pc[t] = "blocked" => m_lock # t /\ w_lock # t
        /\ ~ \E a, b \in Threads :
               /\ m_lock = a /\ pc[a] \in WantsWaitLock
               /\ w_lock = b /\ pc[b] \in WantsBufferLock

\* both locks are held, by two threads, while a third is suspended in a
\* blocking call
C32_Witness ==
    /\ m_lock \in Threads
    /\ w_lock \in Threads
    /\ m_lock # w_lock
    /\ \E t \in Threads : pc[t] = "blocked"

\* C33: popWithLock never runs on an empty buffer; stated for the queues
\* whose two gates are open from construction on (NO_CONTROL), where only
\* concurrent pops and DISCARD_OLDEST pushes can race for the head
C33_HeadRemovalNeverOnEmpty ==
    m_settings.control = "NO_CONTROL" =>
        \A t \in Threads : pc[t] # "popwl_update_ub"

\* C34: under NO_DISCARD, a push with the timeout WAIT_FOREVER on a queue
\* whose push gate is open from construction on returns true unless its wait
\* timed out: a producer that finds the freed slot taken waits again
C34_ForeverPushNeverFails ==
    ( /\ last.op = "push"
      /\ timeout_ms(last.thread) = WAIT_FOREVER
      /\ m_settings.discard = "NO_DISCARD"
      /\ ~pushControllable(m_settings)
      /\ last.how # "timeout" )
        => last.ret = "true"

\* the step ends a push that discarded: the incoming element under
\* DISCARD_NEWEST, an element popWithLock took from the buffer under
\* DISCARD_OLDEST
DroppedOne ==
    /\ last'.op = "push"
    /\ \/ last'.how = "discard_newest" /\ m_settings.discard = "DISCARD_NEWEST"
       \/ /\ last'.how = "discard_oldest"
          /\ m_settings.discard = "DISCARD_OLDEST"
          /\ pc[last'.thread] = "popwl_update"

\* C35: the discard callback is invoked only in a step that ends a push
\* which found the queue full and dropped an element under DISCARD_NEWEST or
\* DISCARD_OLDEST, and once in that step; every such push invokes it when it
\* is set, and changes no record of invocations when it is not; no other
\* return of a push or a pop, and no step of a queue with NO_DISCARD,
\* invokes it
C35_CallbackOncePerDrop ==
    [][/\ discardLog' # discardLog =>
            /\ DroppedOne
            /\ m_discarded_callback
            /\ Len(discardLog') = Len(discardLog) + 1
       /\ (last'.how \in {"discard_newest", "discard_oldest"} /\ m_discarded_callback)
            => discardLog' # discardLog
       /\ (last'.how \in {"discard_newest", "discard_oldest"} /\ ~m_discarded_callback)
            => discardLog' = discardLog
       /\ m_settings.discard = "NO_DISCARD" => dropped' = dropped]_vars

\* C36: a push, pop, waitPushOpen or waitPopOpen called with the timeout
\* WAIT_FOREVER never returns because its wait timed out
C36_ForeverNeverTimesOut ==
    ( /\ last.op \in QueueOps \cup GateOps
      /\ timeout_ms(last.thread) = WAIT_FOREVER )
        => last.how # "timeout"

\* what the worker of the last run has invoked, in order
WorkerEvents == SelectSeq(events, LAMBDA x : x.ev # "stop")

\* stop() has been called since the last run() started its worker
StopCalled == \E i \in DOMAIN events : events[i].ev = "stop"

\* the callbacks of a run, in the order its worker has invoked them, for
\* as long as the worker exists
CallbackOrder ==
    LET W == WorkerEvents
        n == Len(W)
    IN  worker # "none" =>
        /\ \A i \in 1..n :
             /\ W[i].ev = "start" => (i = 1 /\ m_start_callback)
             /\ W[i].ev = "call" =>
                  /\ m_start_callback => (i > 1 /\ W[1].ev = "start")
                  /\ m_result_callback => (i < n /\ W[i + 1] = Entry("result", W[i].val))
                  /\ (\E j \in 1..(i - 1) : W[j].ev = "call") =>
                       /\ mode = "LOOP"
                       /\ m_pred => W[i - 1] = Entry("pred", 1)
             /\ W[i].ev = "result" =>
                  (m_result_callback /\ i > 1 /\ W[i - 1] = Entry("call", W[i].val))
             /\ W[i].ev = "pred" => m_pred
             /\ W[i].ev = "exit" => (i = n /\ m_exit_callback /\ Invoked >= 1)
        /\ worker = "finished" =>
             /\ Invoked >= 1
             /\ m_exit_callback => (n >= 1 /\ W[n].ev = "exit")
             /\ mode = "ONCE" => Invoked = 1
        /\ mode = "ONCE" => Invoked <= 1

\* the worker goes on to another invocation only in LOOP mode, and only if
\* stop() had not been called when it tested the loop flag
ContinuesWhileNotStopped ==
    (worker = "testing" /\ worker' \in {"calling", "pred"}) =>
        (mode = "LOOP" /\ ~StopCalled)

\* C37: in every run of a worker the start callback, if set, is invoked
\* once and before the first invocation of the callable; the result
\* callback, if set, follows each invocation with its result; the exit
\* callback, if set, is invoked once, after the last invocation; the
\* callable is invoked at least once, in ONCE mode exactly once, and in LOOP
\* mode again only if stop() had not been called when the loop flag was
\* tested and the predicate, if set, returned true
C37_CallbacksInOrder ==
    /\ []CallbackOrder
    /\ [][ContinuesWhileNotStopped]_vars

\* a LOOP run with the predicate and the three callbacks set has invoked the
\* callable twice and has ended because the predicate returned false
C37_Witness ==
    /\ worker = "finished"
    /\ mode = "LOOP"
    /\ m_pred /\ m_start_callback /\ m_result_callback /\ m_exit_callback
    /\ Invoked >= 2
    /\ ~StopCalled
    /\ \E i \in DOMAIN events : events[i] = Entry("pred", 0)

\* C38: a stop() called on a Thread that runs in LOOP mode returns true in
\* the end; when it returns, the worker has left loop() after the exit
\* callback, if one is set, and is joined, and as long as no worker exists
\* nothing more is invoked
C38_StopEndsLoop ==
    /\ ((\E t \in Controllers : pc[t] = "stop_join") /\ mode = "LOOP")
            ~> (last.op = "stop" /\ last.ret = "true")
    /\ [][/\ (last'.op = "stop" /\ last'.ret = "true") =>
              /\ worker = "finished" /\ worker' = "none"
              /\ Invoked >= 1
              /\ m_exit_callback => WorkerEvents[Len(WorkerEvents)].ev = "exit"
         /\ (worker = "none" /\ worker' = "none") => events' = events]_vars

\* stop() has returned true on a LOOP run that it has ended: the worker
\* was still to invoke the callable a second time when stop() was called,
\* and has run the exit callback since
C38_Witness ==
    /\ last.op = "stop"
    /\ last.ret = "true"
    /\ mode = "LOOP"
    /\ ~m_pred
    /\ m_exit_callback
    /\ Invoked >= 2
    /\ \E i \in DOMAIN events :
         /\ events[i].ev = "stop"
         /\ \E j \in DOMAIN events : j > i /\ events[j].ev = "call"

\* C39: when the worker reads the handle at the start of loop(), run() has
\* stored it
C39_HandleStoredBeforeRead ==
    [][(worker = "started" /\ worker' # "started") => m_thread_ptr = "set"]_vars

====
